---------------------------- MODULE Spec2Model ----------------------------
(***************************************************************************)
(* SkillScroll (app.py): the content-based recommender                     *)
(* build_recommendations and the Learn page's feed construction.           *)
(*                                                                         *)
(* Tables are sequences of rows.  A text cell is either missing (NaN) or a *)
(* string, kept as its sequence of whitespace-separated words.  Floating   *)
(* point weights are fixed-point integers with Scale units per 1.0.        *)
(***************************************************************************)
EXTENDS Integers, Sequences, FiniteSets, TLC

VARIABLES videos, index, progress, pc, top_n, watched_idx, sims, result, feed,
          courses, comments, polls, poll_votes

vars == <<videos, index, progress, pc, top_n, watched_idx, sims, result, feed,
          courses, comments, polls, poll_votes>>

-----------------------------------------------------------------------------
(* Bounds of the model *)

MaxCatalog == 4

MaxProgress == 2

MaxTopN == 2

\* the store runs: reels uploaded, courses created, watch events, comments
MaxReels == 2

MaxCourses == 1

MaxWatched == 1

MaxComments == 1

-----------------------------------------------------------------------------
(* Generic helpers *)

Min(a, b) == IF a < b THEN a ELSE b

Range(s) == {s[i] : i \in 1..Len(s)}

SeqsUpTo(S, n) == UNION {[1..k -> S] : k \in 0..n}

\* Op applied to the VALUE of x (x is evaluated once, not at every use)
With(x, Op(_)) == CHOOSE r \in {Op(v) : v \in {x}} : TRUE

RECURSIVE SumOver(_, _)
SumOver(S, f) ==
    IF S = {} THEN 0
    ELSE LET x == CHOOSE y \in S : TRUE
         IN f[x] + SumOver(S \ {x}, f)

RECURSIVE Isqrt(_)
Isqrt(n) ==
    IF n < 2 THEN n
    ELSE LET s == 2 * Isqrt(n \div 4)
         IN IF (s + 1) * (s + 1) > n THEN s ELSE s + 1

-----------------------------------------------------------------------------
(* Text cells *)

NaN == [na |-> TRUE, s |-> <<>>]

Str(ws) == [na |-> FALSE, s |-> ws]

\* Series.fillna(""): a missing cell becomes the empty string
fillna(cell) == IF cell.na THEN Str(<<>>) ELSE cell

\* str.lower() on the words the model uses
Lower(w) == IF w = "Aa" THEN "aa" ELSE w

\* TfidfVectorizer's default token_pattern (?u)\b\w\w+\b keeps words of two
\* or more word characters
IsToken(w) == w # "x"

\* title + " " + topic + " " + concept_tags, after fillna("")
Text(v) == fillna(v.title).s \o fillna(v.topic).s \o fillna(v.concept_tags).s

LowerAll(ws) == [i \in 1..Len(ws) |-> Lower(ws[i])]

\* the analyzer: lowercase, then tokenize
Tokenize(ws) == SelectSeq(LowerAll(ws), IsToken)


-----------------------------------------------------------------------------
(* TfidfVectorizer().fit_transform(texts) *)

\* fixed-point units per 1.0
Scale == 1000

\* natural logarithm of 1..8 in Scale units (np.log)
Ln(k) == <<0, 693, 1099, 1386, 1609, 1792, 1946, 2079>>[k]

\* the analyzed documents, one per catalog row, in catalog order
Docs(vs) == [i \in 1..Len(vs) |-> Tokenize(Text(vs[i]))]

\* vocabulary_: the distinct terms of all documents
Vocabulary(docs) == UNION {Range(docs[i]) : i \in 1..Len(docs)}

\* raw term count of t in one document
Tf(doc, t) == Cardinality({k \in 1..Len(doc) : doc[k] = t})

\* number of documents containing t
Df(docs, t) == Cardinality({i \in 1..Len(docs) : t \in Range(docs[i])})

\* smooth_idf=True: idf(t) = ln((1 + n) / (1 + df(t))) + 1
Idf(docs, t) == Scale + Ln(1 + Len(docs)) - Ln(1 + Df(docs, t))

\* idf_: one weight per vocabulary term
IdfVector(docs) == [t \in Vocabulary(docs) |-> Idf(docs, t)]

Norm(vec) == Isqrt(SumOver(DOMAIN vec, [t \in DOMAIN vec |-> vec[t] * vec[t]]))

\* sklearn.preprocessing.normalize(norm="l2"): a zero row is left as it is
Normalize(vec) ==
    With(Norm(vec), LAMBDA n :
        IF n = 0 THEN vec ELSE [t \in DOMAIN vec |-> (vec[t] * Scale) \div n])

\* one l2-normalised tf*idf row per document, aligned with the catalog order
TfidfMatrix(docs) ==
    With(IdfVector(docs), LAMBDA idf :
        [i \in 1..Len(docs) |->
            Normalize([t \in DOMAIN idf |-> Tf(docs[i], t) * idf[t]])])

\* fit_transform raises ValueError("empty vocabulary ...") when no document
\* yields a token
EmptyVocabulary(docs) == Vocabulary(docs) = {}

-----------------------------------------------------------------------------
(* Profile and similarity *)

\* progress[(progress["user_id"] == user_id) & (progress["watched"] == 1)]
UserWatched(prog, user) ==
    SelectSeq(prog, LAMBDA r : r.user_id = user /\ r.watched = 1)

\* Series.unique(): distinct values in order of first appearance
RECURSIVE Unique(_)
Unique(s) ==
    IF s = <<>> THEN <<>>
    ELSE LET init == Unique(SubSeq(s, 1, Len(s) - 1))
             last == s[Len(s)]
         IN IF last \in Range(init) THEN init ELSE Append(init, last)

\* user_watched["video_id"].unique().tolist()
WatchedIds(prog, user) ==
    LET uw == UserWatched(prog, user)
    IN Unique([i \in 1..Len(uw) |-> uw[i].video_id])

\* catalog positions (1-based) of the rows whose video_id is in ids
RECURSIVE IsinPositions(_, _, _)
IsinPositions(vs, ids, k) ==
    IF k > Len(vs) THEN <<>>
    ELSE IF vs[k].video_id \in ids
         THEN <<k>> \o IsinPositions(vs, ids, k + 1)
         ELSE IsinPositions(vs, ids, k + 1)

\* videos[videos["video_id"].isin(watched_ids)].index.tolist(): the index
\* LABELS of the watched rows
WatchedIdx(vs, idx, ids) ==
    LET pos == IsinPositions(vs, ids, 1)
    IN [j \in 1..Len(pos) |-> idx[pos[j]]]

\* tfidf_matrix[watched_idx]: the labels are used as 0-based row positions;
\* a label outside the matrix raises IndexError
IndexOutOfRange(widx, n) == \E j \in 1..Len(widx) : widx[j] >= n

WatchedVectors(matrix, widx) == [j \in 1..Len(widx) |-> matrix[widx[j] + 1]]

\* watched_vectors.mean(axis=0)
Mean(rows, vocab) ==
    [t \in vocab |->
        SumOver(1..Len(rows), [j \in 1..Len(rows) |-> rows[j][t]]) \div Len(rows)]

Dot(a, b) == SumOver(DOMAIN a, [t \in DOMAIN a |-> a[t] * b[t]])

\* cosine_similarity(user_profile_vec, tfidf_matrix).ravel(): both sides are
\* l2-normalised (zero rows stay zero), then multiplied
CosineSimilarity(profile, matrix) ==
    With(Normalize(profile), LAMBDA p :
        [i \in 1..Len(matrix) |-> Dot(p, Normalize(matrix[i])) \div Scale])

-----------------------------------------------------------------------------
(* build_recommendations(videos, progress, user_id, top_n) *)

\* the columns load_data gives the videos table that the recommender reads
CatalogColumns == {"video_id", "title", "topic", "concept_tags"}

\* a returned table: its columns and its rows (catalog positions, in order)
Frame(cols, rows) == [kind |-> "frame", error |-> "", columns |-> cols, rows |-> rows]

\* the call ended by raising
Raised(e) == [kind |-> "error", error |-> e, columns |-> {}, rows |-> <<>>]

\* a fallback collapsed into an empty ranked table (faulty variant of ReturnVideos)
ReturnEmptyRanked(vs) == Frame(CatalogColumns \cup {"similarity"}, <<>>)

\* `return videos`: the catalog table itself, every row, no similarity column
ReturnVideos(vs) == Frame(CatalogColumns, [i \in 1..Len(vs) |-> i])

\* the watched filter left out (faulty variant of NotWatched)
NotWatchedDropped(vs, ids, i) == TRUE

\* videos_copy[~videos_copy["video_id"].isin(watched_ids)]
NotWatched(vs, ids, i) == vs[i].video_id \notin Range(ids)

\* the threshold written >= 0 (faulty variant of PositiveSimilarity)
NonNegativeSimilarity(sm, i) == sm[i] >= 0

\* videos_copy[videos_copy["similarity"] > 0]
PositiveSimilarity(sm, i) == sm[i] > 0

\* the rows left after both filters
Candidates(vs, ids, sm) ==
    {i \in 1..Len(vs) : NotWatched(vs, ids, i) /\ PositiveSimilarity(sm, i)}

\* sort_values("similarity") with ascending left at its default, True
\* (faulty variant of SortValues)
RECURSIVE SortValuesAscending(_, _)
SortValuesAscending(rows, sm) ==
    IF rows = {} THEN {<<>>}
    ELSE UNION {{<<r>> \o t : t \in SortValuesAscending(rows \ {r}, sm)} :
                    r \in {x \in rows : \A y \in rows : sm[x] <= sm[y]}}

\* sort_values("similarity", ascending=False) with the default kind
\* ("quicksort", not stable): any arrangement of the rows with similarity
\* non-increasing; the order among equal similarities is the sort's choice.
\* Each arrangement starts with a row of highest similarity and goes on with
\* an arrangement of the others.
RECURSIVE SortValues(_, _)
SortValues(rows, sm) ==
    IF rows = {} THEN {<<>>}
    ELSE UNION {{<<r>> \o t : t \in SortValues(rows \ {r}, sm)} :
                    r \in {x \in rows : \A y \in rows : sm[x] >= sm[y]}}

\* one row too many (faulty variant of head)
headOffByOne(rows, n) == SubSeq(rows, 1, Min(n + 1, Len(rows)))

\* DataFrame.head(n) for n >= 0
head(rows, n) == SubSeq(rows, 1, Min(n, Len(rows)))

\* what the call leaves behind: the value returned (or the error raised), the
\* watched_idx list and the sims array when they were computed
Outcome(ret, widx, sm) == [ret |-> ret, watched_idx |-> widx, sims |-> sm]

\* lines 160-164: the similarity of every catalog row to the mean of the
\* matrix rows that watched_idx selects
Similarities(docs, widx) ==
    With(TfidfMatrix(docs), LAMBDA matrix :
        CosineSimilarity(Mean(WatchedVectors(matrix, widx), Vocabulary(docs)), matrix))

\* lines 166-174: filter, sort, truncate
Ranked(vs, ids, widx, sm, n) ==
    {Outcome(Frame(CatalogColumns \cup {"similarity"}, head(o, n)), widx, sm) :
        o \in SortValues(Candidates(vs, ids, sm), sm)}

\* lines 147-174, once the vectorizer has been fitted
AfterFit(vs, idx, docs, ids, n) ==
    IF Len(ids) < 2 THEN {Outcome(ReturnVideos(vs), <<>>, <<>>)}
    ELSE UNION {
        IF widx = <<>> THEN {Outcome(ReturnVideos(vs), widx, <<>>)}
        ELSE IF IndexOutOfRange(widx, Len(vs))
             THEN {Outcome(Raised("IndexError"), widx, <<>>)}
             ELSE UNION {Ranked(vs, ids, widx, sm, n) : sm \in {Similarities(docs, widx)}}
        : widx \in {WatchedIdx(vs, idx, Range(ids))}}

\* every outcome the call can have
build_recommendations(vs, idx, prog, user, n) ==
    IF vs = <<>> THEN {Outcome(ReturnVideos(vs), <<>>, <<>>)}
    ELSE UNION {
        IF EmptyVocabulary(docs) THEN {Outcome(Raised("ValueError"), <<>>, <<>>)}
        ELSE UNION {AfterFit(vs, idx, docs, ids, n) : ids \in {WatchedIds(prog, user)}}
        : docs \in {Docs(vs)}}

-----------------------------------------------------------------------------
(* Inputs *)

\* get_current_user(): the single demo identity
CurrentUser == "demo_user"

\* the reels a catalog row is drawn from: (title, topic, concept_tags)
ReelTexts ==
    { <<NaN, Str(<<>>), Str(<<"x">>)>>,
      <<Str(<<"Aa">>), NaN, Str(<<>>)>>,
      <<Str(<<"aa", "bb">>), Str(<<"bb">>), NaN>>,
      <<Str(<<"cc">>), Str(<<>>), Str(<<>>)>> }

\* the id Upload Reel gives the k-th reel stands as k (video_k)
Reel(k, txt) ==
    [video_id |-> k, title |-> txt[1], topic |-> txt[2], concept_tags |-> txt[3]]

Catalogs ==
    {[k \in 1..Len(ts) |-> Reel(k, ts[k])] : ts \in SeqsUpTo(ReelTexts, MaxCatalog)}

\* pd.read_csv / concat(ignore_index=True): labels 0 .. n-1
RangeIndex(n) == [i \in 1..n |-> i - 1]

\* rows earlier sessions left in progress.csv and that are not watch events
\* of the current user: a row with watched = 0, a row of another user
StaleRows ==
    << [user_id |-> CurrentUser, video_id |-> 2, watched |-> 0],
       [user_id |-> "other_user", video_id |-> 2, watched |-> 1] >>

\* the reels the current user marks as watched: the first, the third, and one
\* that no catalog holds (a reel since removed from videos.csv)
WatchedRows ==
    {[user_id |-> CurrentUser, video_id |-> k, watched |-> 1] :
        k \in {1, 3, MaxCatalog + 1}}

\* progress.csv: the stale rows, then the rows "Mark as Watched" appended
ProgressTables == {StaleRows \o t : t \in SeqsUpTo(WatchedRows, MaxProgress)}

NoFrame == [kind |-> "none", error |-> "", columns |-> {}, rows |-> <<>>]

-----------------------------------------------------------------------------
(* The state machine *)

Init ==
    /\ videos \in Catalogs
    /\ index = RangeIndex(Len(videos))
    /\ progress \in ProgressTables
    /\ pc = "ready"
    /\ top_n = 10
    /\ watched_idx = <<>>
    /\ sims = <<>>
    /\ result = NoFrame
    /\ feed = NoFrame
    /\ courses = <<>>
    /\ comments = <<>>
    /\ polls = <<>>
    /\ poll_votes = <<>>

\* a direct call build_recommendations(videos, progress, user_id, top_n=n)
BuildRecommendations(n) ==
    /\ pc = "ready"
    /\ \E out \in build_recommendations(videos, index, progress, CurrentUser, n) :
        /\ result' = out.ret
        /\ watched_idx' = out.watched_idx
        /\ sims' = out.sims
    /\ top_n' = n
    /\ pc' = "called"
    /\ UNCHANGED <<videos, index, progress, feed>>
    /\ UNCHANGED <<courses, comments, polls, poll_votes>>

\* the Learn page building its feed with feed type "Recommended For You (ML)"
\* on a non-empty catalog (topic and level filters at "All"); a call that
\* raises ends the page run
LearnRecommended ==
    /\ pc = "ready"
    /\ videos # <<>>
    /\ \E out \in build_recommendations(videos, index, progress, CurrentUser, 20) :
        /\ result' = out.ret
        /\ watched_idx' = out.watched_idx
        /\ sims' = out.sims
        /\ feed' = IF out.ret.kind = "error" THEN NoFrame
                   ELSE IF out.ret.rows = <<>> THEN ReturnVideos(videos)
                   ELSE out.ret
        /\ pc' = IF out.ret.kind = "error" THEN "crashed" ELSE "feed"
    /\ top_n' = 20
    /\ UNCHANGED <<videos, index, progress>>
    /\ UNCHANGED <<courses, comments, polls, poll_votes>>

Next ==
    \/ \E n \in 0..MaxTopN : BuildRecommendations(n)
    \/ LearnRecommended

Spec == Init /\ [][Next]_vars

\* index labels of a catalog that is a row selection of a longer table (such
\* as videos[videos["topic"] == t]): strictly increasing labels
IndexLabels(n) ==
    {l \in [1..n -> 0..MaxCatalog] : \A i \in 1..(n - 1) : l[i] < l[i + 1]}

\* the same calls, on catalogs carrying any such index
InitLabels ==
    /\ videos \in Catalogs
    /\ index \in IndexLabels(Len(videos))
    /\ progress \in ProgressTables
    /\ pc = "ready"
    /\ top_n = 10
    /\ watched_idx = <<>>
    /\ sims = <<>>
    /\ result = NoFrame
    /\ feed = NoFrame
    /\ courses = <<>>
    /\ comments = <<>>
    /\ polls = <<>>
    /\ poll_votes = <<>>

SpecLabels == InitLabels /\ [][Next]_vars

-----------------------------------------------------------------------------
(* The CSV store and the page runs that write it *)

\* str.strip() on a form field: leading and trailing blanks removed
RECURSIVE strip(_)
strip(ws) ==
    IF ws # <<>> /\ Head(ws) = " " THEN strip(Tail(ws))
    ELSE IF ws # <<>> /\ ws[Len(ws)] = " " THEN strip(SubSeq(ws, 1, Len(ws) - 1))
    ELSE ws

\* DataFrame.to_csv: a missing cell and an empty string are both written as
\* an empty field
to_csv(cell) == IF cell.na THEN <<>> ELSE cell.s

\* pd.read_csv: an empty field is read back as a missing cell
read_csv(field) == IF field = <<>> THEN NaN ELSE Str(field)

\* the columns of the six tables that hold free text
TextColumns ==
    {"title", "topic", "concept_tags", "course_name", "text", "question",
     "option_1", "option_2", "option_3", "option_4", "chosen_option"}

\* a table as the next page run loads it after this run has written it
Reloaded(table) ==
    [i \in 1..Len(table) |->
        [c \in DOMAIN table[i] |->
            IF c \in TextColumns THEN read_csv(to_csv(table[i][c]))
            ELSE table[i][c]]]

\* save_data: all six files are rewritten from the tables of the page run
save_data(vs, cs, pr, cm, ps, pv) ==
    /\ videos' = Reloaded(vs)
    /\ index' = RangeIndex(Len(vs))
    /\ courses' = Reloaded(cs)
    /\ progress' = Reloaded(pr)
    /\ comments' = Reloaded(cm)
    /\ polls' = Reloaded(ps)
    /\ poll_votes' = Reloaded(pv)

\* the id of the last row taken again, not advanced (faulty variant of
\* NewVideoId)
NewVideoIdNotAdvanced(vs) == IF vs = <<>> THEN 1 ELSE vs[Len(vs)].video_id

\* line 492: vid_id = f"video_{len(videos) + 1}", video_k standing as k
NewVideoId(vs) == Len(vs) + 1

\* line 510: poll_id = f"poll_{len(polls) + 1}"
NewPollId(ps) == Len(ps) + 1

\* line 423: course_id = f"course_{len(courses) + 1}"
NewCourseId(cs) == Len(cs) + 1

\* the earlier vote never looked up (faulty variant of user_prev_vote)
user_prev_vote_skipped(pv, poll_id, user) == <<>>

\* lines 313-316: the rows of poll_votes of this poll and this user
user_prev_vote(pv, poll_id, user) ==
    SelectSeq(pv, LAMBDA r : r.poll_id = poll_id /\ r.user_id = user)

\* lines 298-311: the options of a poll that are non-empty strings
Labels(poll_row) ==
    SelectSeq(<<poll_row.option_1, poll_row.option_2,
                poll_row.option_3, poll_row.option_4>>,
              LAMBDA o : ~o.na /\ o.s # <<>>)

FeedTypes == {"Recommended For You (ML)", "All Videos"}

\* lines 201-217: the feeds (catalog positions in order) the Learn page can
\* show; none when the catalog is empty or the recommender raises
LearnFeeds(vs, idx, prog, user, feed_type) ==
    IF vs = <<>> THEN {}
    ELSE IF feed_type = "All Videos" THEN {ReturnVideos(vs).rows}
    ELSE {IF o.ret.rows = <<>> THEN ReturnVideos(vs).rows ELSE o.ret.rows :
            o \in {x \in build_recommendations(vs, idx, prog, user, 20) :
                      x.ret.kind # "error"}}

\* the Creator Studio forms
CourseNames == {<<" ">>, <<"DSA">>}

UploadForms ==
    {[title |-> t, topic |-> <<>>, concept_tags |-> <<>>, url |-> u] :
        t \in {<<" ">>, <<"Aa">>}, u \in {<<>>, <<"u">>}}

PollForms ==
    {[add_poll |-> a, question |-> q, option_1 |-> o[1], option_2 |-> o[2],
      option_3 |-> <<>>, option_4 |-> <<>>] :
        a \in BOOLEAN, q \in {<<>>, <<"Q">>},
        o \in {<< <<"Yes">>, <<"No">> >>, << <<>>, <<>> >>}}

CommentTexts == {<<" ">>, <<"hi">>}

\* a store that no page run has written yet: load_or_create_csv finds no file
InitStore ==
    /\ videos = <<>>
    /\ index = <<>>
    /\ progress = <<>>
    /\ courses = <<>>
    /\ comments = <<>>
    /\ polls = <<>>
    /\ poll_votes = <<>>
    /\ pc = "ready"
    /\ top_n = 10
    /\ watched_idx = <<>>
    /\ sims = <<>>
    /\ result = NoFrame
    /\ feed = NoFrame

\* Creator Studio, "New Course" selected, button "Create Course"
CreateCourse(name) ==
    /\ Len(courses) < MaxCourses
    /\ IF strip(name) # <<>>
       THEN save_data(videos,
                      Append(courses, [course_id |-> NewCourseId(courses),
                                       course_name |-> Str(strip(name))]),
                      progress, comments, polls, poll_votes)
       ELSE UNCHANGED <<videos, index, courses, progress, comments, polls,
                        poll_votes>>
    /\ UNCHANGED <<pc, top_n, watched_idx, sims, result, feed>>

\* Creator Studio, an existing course selected, button "Upload Reel"
UploadReel(choice, form, poll) ==
    /\ Len(videos) < MaxReels
    /\ \E i \in 1..Len(courses) : courses[i].course_name = choice
    /\ IF strip(form.title) = <<>> \/ strip(form.url) = <<>>
       THEN UNCHANGED <<videos, index, courses, progress, comments, polls,
                        poll_votes>>
       ELSE LET vid_id == NewVideoId(videos)
                new_vid == Reel(vid_id, << Str(strip(form.title)),
                                           Str(strip(form.topic)),
                                           Str(strip(form.concept_tags)) >>)
                poll_row == [poll_id |-> NewPollId(polls),
                             video_id |-> vid_id,
                             question |-> Str(strip(poll.question)),
                             option_1 |-> Str(strip(poll.option_1)),
                             option_2 |-> Str(strip(poll.option_2)),
                             option_3 |-> Str(strip(poll.option_3)),
                             option_4 |-> Str(strip(poll.option_4))]
            IN  save_data(Append(videos, new_vid), courses, progress, comments,
                          IF /\ poll.add_poll
                             /\ poll.question # <<>>
                             /\ (poll.option_1 # <<>> \/ poll.option_2 # <<>>)
                          THEN Append(polls, poll_row) ELSE polls,
                          poll_votes)
    /\ UNCHANGED <<pc, top_n, watched_idx, sims, result, feed>>

\* the feed row of catalog position i, button "Mark as Watched"
MarkAsWatched(i) ==
    /\ Len(progress) < MaxWatched
    /\ save_data(videos, courses,
                 Append(progress, [user_id |-> CurrentUser,
                                   video_id |-> videos[i].video_id,
                                   watched |-> 1]),
                 comments, polls, poll_votes)
    /\ UNCHANGED <<pc, top_n, watched_idx, sims, result, feed>>

\* the feed row of catalog position i, button "Post Comment"
PostComment(i, text) ==
    /\ Len(comments) < MaxComments
    /\ IF strip(text) # <<>>
       THEN save_data(videos, courses, progress,
                      Append(comments, [video_id |-> videos[i].video_id,
                                        user_id |-> CurrentUser,
                                        text |-> Str(strip(text)),
                                        is_creator |-> 0]),
                      polls, poll_votes)
       ELSE UNCHANGED <<videos, index, courses, progress, comments, polls,
                        poll_votes>>
    /\ UNCHANGED <<pc, top_n, watched_idx, sims, result, feed>>

\* the votes a store run may hold: one more than the polls it can hold
MaxVotes == MaxReels + 1

\* the feed row of catalog position i, Quick Poll, button "Submit Vote"
SubmitVote(i, choice) ==
    /\ Len(poll_votes) < MaxVotes
    /\ LET rows == SelectSeq(polls, LAMBDA p : p.video_id = videos[i].video_id)
       IN  /\ rows # <<>>
           /\ Labels(rows[1]) # <<>>
           /\ user_prev_vote(poll_votes, rows[1].poll_id, CurrentUser) = <<>>
           /\ choice \in Range(Labels(rows[1]))
           /\ save_data(videos, courses, progress, comments, polls,
                        Append(poll_votes, [poll_id |-> rows[1].poll_id,
                                            user_id |-> CurrentUser,
                                            chosen_option |-> choice]))
    /\ UNCHANGED <<pc, top_n, watched_idx, sims, result, feed>>

\* Learn with the catalog non-empty: the feed is built, and the button of one
\* of its rows is pressed
LearnPage(feed_type) ==
    \E f \in LearnFeeds(videos, index, progress, CurrentUser, feed_type) :
        \E i \in Range(f) :
            \/ MarkAsWatched(i)
            \/ \E text \in CommentTexts : PostComment(i, text)
            \/ \E choice \in {Str(<<"Yes">>), Str(<<"No">>)} : SubmitVote(i, choice)

\* one page run: the store is loaded, at most one button acts, the store is
\* written (the buttons that write nothing are left out)
NextStore ==
    \/ \E name \in CourseNames : CreateCourse(name)
    \/ \E choice \in {Str(strip(n)) : n \in CourseNames},
          form \in UploadForms, poll \in PollForms :
            UploadReel(choice, form, poll)
    \/ \E feed_type \in FeedTypes : LearnPage(feed_type)

SpecStore == InitStore /\ [][NextStore]_vars


-----------------------------------------------------------------------------
(* Vocabulary of the claims, stated on the inputs and on what a call left *)

\* a call has ended (by returning or by raising)
Ended == pc \in {"called", "feed", "crashed"}

\* the user's distinct watched-id set
DistinctWatched ==
    {r.video_id : r \in {q \in Range(progress) :
                            q.user_id = CurrentUser /\ q.watched = 1}}

CatalogIds == {videos[i].video_id : i \in 1..Len(videos)}

\* the watched ids still present in the catalog
ValidWatched == DistinctWatched \cap CatalogIds

\* catalog positions of the items whose id is watched
WatchedPositions ==
    {i \in 1..Len(videos) :
        \E r \in Range(progress) :
            r.user_id = CurrentUser /\ r.watched = 1 /\ r.video_id = videos[i].video_id}

\* the call returned a ranked list: a table carrying the similarity column
IsRanked == Ended /\ result.kind = "frame" /\ "similarity" \in result.columns

\* the call returned the fallback: the catalog table as it is
IsFallback == Ended /\ result.kind = "frame" /\ "similarity" \notin result.columns

Returned == {result.rows[k] : k \in 1..Len(result.rows)}

\* position of catalog row i in the returned list
PlaceOf(i) == CHOOSE k \in 1..Len(result.rows) : result.rows[k] = i

\* unwatched with similarity > 0
Eligible == {i \in 1..Len(videos) \ WatchedPositions : sims[i] > 0}

\* the terms of catalog row i
Terms(i) == Range(Tokenize(Text(videos[i])))

-----------------------------------------------------------------------------
(* C1 *)

\* C1 as stated: no row a call returns, on any path, has a video_id of the
\* user's distinct watched-id set.
C1_NoReturnedRowIsWatched ==
    (Ended /\ result.kind = "frame") => Returned \cap WatchedPositions = {}

\* C1 as amended: no row of a RANKED list (a result carrying the similarity
\* column) has a video_id of the user's distinct watched-id set, whatever that
\* item's similarity; the fallback result is the whole catalog, watched rows
\* included.
C1_RankedRowsAreUnwatched ==
    IsRanked => Returned \cap WatchedPositions = {}

\* a ranked, non-empty list in a call where a watched item has similarity > 0
C1_Witness ==
    /\ IsRanked
    /\ Cardinality(ValidWatched) >= 2
    /\ result.rows # <<>>
    /\ \E w \in WatchedPositions : sims[w] > 0

-----------------------------------------------------------------------------
(* C2 *)

\* C2: with fewer than 2 of the user's distinct watched ids present in the
\* catalog, a call that returns returns the fallback, never a ranked list.
C2_FewerThanTwoValidFallsBack ==
    (Ended /\ result.kind = "frame" /\ Cardinality(ValidWatched) < 2) => IsFallback

-----------------------------------------------------------------------------
(* C3 *)

\* the fallback paths the claim lists
FallbackCase ==
    \/ videos = <<>>
    \/ Cardinality(DistinctWatched) < 2
    \/ ValidWatched = {}

\* C3: the value returned on a fallback path (empty catalog, fewer than 2
\* distinct watched ids, no watched id left in the catalog) never carries the
\* similarity column, every value returned on another path does, and with at
\* least 2 valid watched ids and no unwatched row of similarity > 0 the value
\* is the empty ranked list, not the fallback.
C3_FallbackDistinctFromRanked ==
    (Ended /\ result.kind = "frame") =>
        /\ FallbackCase => IsFallback /\ result = ReturnVideos(videos)
        /\ ~FallbackCase => IsRanked
        /\ (~FallbackCase /\ Cardinality(ValidWatched) >= 2 /\ Eligible = {})
              => IsRanked /\ result.rows = <<>>

\* an empty ranked list: 2 valid watched ids, an unwatched row, none eligible
C3_Witness ==
    /\ IsRanked
    /\ result.rows = <<>>
    /\ Cardinality(ValidWatched) >= 2
    /\ \E i \in 1..Len(videos) : i \notin WatchedPositions

-----------------------------------------------------------------------------
(* C4 *)

\* C4: on the Learn page the feed is the full catalog exactly when the
\* recommender signalled fallback; an empty ranked list is not replaced.
C4_FeedReplacedOnlyOnFallback ==
    pc = "feed" => (feed = ReturnVideos(videos) <=> IsFallback)

-----------------------------------------------------------------------------
(* C5 *)

\* C5: in a ranked list, when eligible A has strictly higher similarity than
\* eligible B and B is in the list, A is in the list at an earlier place.
C5_HigherSimilarityFirst ==
    IsRanked =>
        \A a, b \in Eligible :
            (sims[a] > sims[b] /\ b \in Returned) =>
                (a \in Returned /\ PlaceOf(a) < PlaceOf(b))

\* a ranked list holding two rows of different similarity
C5_Witness ==
    /\ IsRanked
    /\ Cardinality(ValidWatched) >= 2
    /\ \E a, b \in Returned : sims[a] > sims[b] /\ a > b

-----------------------------------------------------------------------------
(* C6 *)

\* C6: two returned rows of equal similarity stand in catalog order.
C6_TiesInCatalogOrder ==
    IsRanked =>
        \A j, k \in 1..Len(result.rows) :
            (j < k /\ sims[result.rows[j]] = sims[result.rows[k]])
                => result.rows[j] < result.rows[k]

-----------------------------------------------------------------------------
(* C7 *)

\* C7: a ranked list is the first min(top_n, number of eligible rows) rows of
\* the eligible rows in non-increasing similarity: that many rows, each
\* eligible, none twice, non-increasing, and no row left out has a higher
\* similarity than a row kept.
C7_PrefixOfSorted ==
    IsRanked =>
        /\ Len(result.rows) = Min(top_n, Cardinality(Eligible))
        /\ Returned \subseteq Eligible
        /\ Cardinality(Returned) = Len(result.rows)
        /\ \A k \in 1..(Len(result.rows) - 1) :
              sims[result.rows[k]] >= sims[result.rows[k + 1]]
        /\ \A e \in Eligible \ Returned : \A r \in Returned : sims[e] <= sims[r]

\* a list cut at top_n: more rows are eligible than were asked for
C7_Witness ==
    /\ IsRanked
    /\ Cardinality(ValidWatched) >= 2
    /\ Cardinality(Eligible) > top_n
    /\ Len(result.rows) = top_n

-----------------------------------------------------------------------------
(* C8 *)

\* C8: every call ends by returning a table, never by raising.
C8_NeverRaises ==
    Ended => result.kind = "frame"

-----------------------------------------------------------------------------
(* C9 *)

\* C9: every row of a ranked list has similarity > 0 and shares a term with
\* a watched catalog item (one whose row went into the profile).
C9_ReturnedRowsArePositive ==
    IsRanked =>
        \A i \in Returned :
            /\ sims[i] > 0
            /\ \E w \in WatchedPositions : Terms(i) \cap Terms(w) # {}

\* a non-empty ranked list from a catalog that also holds an unwatched row
\* without any term
C9_Witness ==
    /\ IsRanked
    /\ Cardinality(ValidWatched) >= 2
    /\ result.rows # <<>>
    /\ \E i \in 1..Len(videos) :
          i \notin WatchedPositions /\ Terms(i) = {} /\ i \notin Returned

-----------------------------------------------------------------------------
(* C10 *)

\* the catalog positions of the matrix rows a call averaged
AveragedPositions == {watched_idx[j] + 1 : j \in 1..Len(watched_idx)}

\* C10: whatever index labels the catalog carries, a call that reaches the
\* profile step raises nothing and averages exactly the matrix rows at the
\* catalog positions of the watched items.
C10_ProfileRowsAreWatchedRows ==
    (Ended /\ watched_idx # <<>>) =>
        /\ result.kind = "frame"
        /\ AveragedPositions = WatchedPositions

-----------------------------------------------------------------------------
(* The store claims *)

\* C11: from an empty video store, whatever page runs follow one another
\* (Upload Reel among Create Course, Mark as Watched, Post Comment and Submit
\* Vote), no two rows of the catalog carry the same video_id
C11_VideoIdsPairwiseDistinct ==
    \A i, j \in 1..Len(videos) :
        videos[i].video_id = videos[j].video_id => i = j

\* several reels uploaded, with a watch event, a comment and a vote written
\* by page runs in between
C11_Witness ==
    /\ Len(videos) >= 2
    /\ \E k \in 1..Len(progress) : progress[k].video_id = 1
    /\ comments # <<>>
    /\ poll_votes # <<>>
    /\ polls[1].video_id = 1

\* the (poll_id, user_id) pair of a vote
VoteKey(v) == <<v.poll_id, v.user_id>>

AtMostOneVotePerPair ==
    \A j, k \in 1..Len(poll_votes) :
        VoteKey(poll_votes[j]) = VoteKey(poll_votes[k]) => j = k

\* a page run that touches poll_votes appends exactly one vote, of a pair
\* that had none, and writes no other table: it is a Submit Vote
OnlySubmitVoteWrites ==
    poll_votes' # poll_votes =>
        /\ \E v \in [poll_id : {polls[k].poll_id : k \in 1..Len(polls)},
                     user_id : {CurrentUser},
                     chosen_option : UNION {Range(Labels(polls[k])) :
                                               k \in 1..Len(polls)}] :
            /\ poll_votes' = Append(poll_votes, v)
            /\ \A k \in 1..Len(poll_votes) : VoteKey(poll_votes[k]) # VoteKey(v)
        /\ UNCHANGED <<videos, courses, progress, comments, polls>>

\* C12: from an empty poll_votes table, after any sequence of page runs the
\* table holds at most one row per (poll_id, user_id) pair; the only page run
\* that adds a vote is a Submit Vote of a user with no earlier vote on that
\* poll, and no page run changes or removes a vote
C12_OneVotePerPollAndUser ==
    /\ []AtMostOneVotePerPair
    /\ [][OnlySubmitVoteWrites]_vars

\* the user has voted on two polls, so Submit Vote has been both taken and,
\* for the polls already voted on, refused
C12_Witness ==
    /\ Len(poll_votes) >= 2
    /\ \A k \in 1..Len(polls) :
        user_prev_vote(poll_votes, polls[k].poll_id, CurrentUser) # <<>>
    /\ progress # <<>>
    /\ comments # <<>>

=============================================================================
